---- MODULE Spec2Model ----
(***************************************************************************)
(* A model of JsonDir (src/src/JsonDir.js): a directory of JSON files with *)
(* read/write/delete/rename, directory scans (count, names, readAll,       *)
(* forEach, map, find, findAll), writeAll and a git commit.                *)
(*                                                                         *)
(* Strings are sequences of characters (one-character strings; the two     *)
(* symbols "U+00E9" and "U+FFFD" stand for one non-ASCII character each,   *)
(* and "__proto__" for the nine characters of that property name).  File   *)
(* contents are sequences of bytes.  JSON.stringify, JSON.parse and the    *)
(* text encodings of Node are modelled by what they compute.               *)
(***************************************************************************)
EXTENDS Integers, Sequences, FiniteSets, TLC

VARIABLES
  files,    \* the directory listing, in readdir order: <<[file, data]>>
  options,  \* this._options: [encoding, replacer, space, git]
  last,     \* the last call of the API: its arguments, outcome and effects
  pc,       \* position inside a running commit(): "idle", "first", "init", "retry"
  call,     \* the running commit()'s locals: [file, cmd]
  execLog,  \* the external processes the current/last commit() launched
  repo      \* whether a git repository exists in the directory

vars == <<files, options, last, pc, call, execLog, repo>>

----------------------------------------------------------------------------
(* Sequences of characters                                                 *)

RECURSIVE Concat(_)
\* the concatenation of a sequence of sequences (template strings, join),
\* halving the sequence
Concat(ss) ==
  IF Len(ss) = 0 THEN <<>>
  ELSE IF Len(ss) = 1 THEN ss[1]
  ELSE LET h == Len(ss) \div 2 IN
       Concat(SubSeq(ss, 1, h)) \o Concat(SubSeq(ss, h + 1, Len(ss)))

\* String.prototype.includes
Includes(s, sub) ==
  \E i \in 0..(Len(s) - Len(sub)) : SubSeq(s, i + 1, i + Len(sub)) = sub

\* String.prototype.endsWith
EndsWith(s, suffix) ==
  /\ Len(s) >= Len(suffix)
  /\ SubSeq(s, Len(s) - Len(suffix) + 1, Len(s)) = suffix

\* String.prototype.substr(0, n): a negative length gives the empty string
Substr0(s, n) == IF n <= 0 THEN <<>> ELSE SubSeq(s, 1, IF n > Len(s) THEN Len(s) ELSE n)

DotDot   == <<".", ".">>
DotJson  == <<".", "j", "s", "o", "n">>
ProtoKey == <<"__proto__">>

----------------------------------------------------------------------------
(* JavaScript values that JSON can hold.  Every value is a record of the   *)
(* same shape; t is the type tag.  An object is its keys in property order *)
(* and, position by position, their values.                                *)

JNull        == [t |-> "null",   b |-> FALSE, n |-> 0, s |-> <<>>, keys |-> <<>>, kids |-> <<>>]
JBool(x)     == [t |-> "bool",   b |-> x,     n |-> 0, s |-> <<>>, keys |-> <<>>, kids |-> <<>>]
JNum(x)      == [t |-> "number", b |-> FALSE, n |-> x, s |-> <<>>, keys |-> <<>>, kids |-> <<>>]
JStr(x)      == [t |-> "string", b |-> FALSE, n |-> 0, s |-> x,    keys |-> <<>>, kids |-> <<>>]
JArr(xs)     == [t |-> "array",  b |-> FALSE, n |-> 0, s |-> <<>>, keys |-> <<>>, kids |-> xs]
JObj(ks, xs) == [t |-> "object", b |-> FALSE, n |-> 0, s |-> <<>>, keys |-> ks,   kids |-> xs]

\* undefined: what a missing property reads as (JSON cannot hold it)
JUndefined   == [t |-> "undefined", b |-> FALSE, n |-> 0, s |-> <<>>, keys |-> <<>>, kids |-> <<>>]

\* index of key k in an object's key list, 0 when absent
KeyIndex(ks, k) ==
  IF \E i \in 1..Len(ks) : ks[i] = k THEN CHOOSE i \in 1..Len(ks) : ks[i] = k ELSE 0

\* obj[k] = v as JSON.parse does it (CreateDataProperty): a repeated key
\* keeps its place and takes the later value
SetKey(o, k, v) ==
  LET i == KeyIndex(o.keys, k) IN
  IF i = 0 THEN JObj(Append(o.keys, k), Append(o.kids, v))
  ELSE JObj(o.keys, [o.kids EXCEPT ![i] = v])

RECURSIVE DeepEqual(_, _)
\* structural equality; the order of an object's keys does not matter
DeepEqual(x, y) ==
  /\ x.t = y.t
  /\ CASE x.t = "null"   -> TRUE
       [] x.t = "bool"   -> x.b = y.b
       [] x.t = "number" -> x.n = y.n
       [] x.t = "string" -> x.s = y.s
       [] x.t = "array"  -> /\ Len(x.kids) = Len(y.kids)
                            /\ \A i \in 1..Len(x.kids) : DeepEqual(x.kids[i], y.kids[i])
       [] OTHER          -> /\ Len(x.keys) = Len(y.keys)
                            /\ \A i \in 1..Len(x.keys) :
                                 LET j == KeyIndex(y.keys, x.keys[i]) IN
                                 j # 0 /\ DeepEqual(x.kids[i], y.kids[j])

----------------------------------------------------------------------------
(* JSON.stringify(value, replacer, space)                                  *)

RECURSIVE Spaces(_)
Spaces(n) == IF n <= 0 THEN <<>> ELSE <<" ">> \o Spaces(n - 1)

\* the gap of JSON.stringify: a number gives min(10, n) spaces, a string
\* its first ten characters
Gap(space) ==
  IF space.kind = "number"
  THEN Spaces(IF space.n > 10 THEN 10 ELSE space.n)
  ELSE Substr0(space.s, 10)

Digit(d) == <<"0", "1", "2", "3", "4", "5", "6", "7", "8", "9">>[d + 1]

RECURSIVE NumChars(_)
\* the decimal text of a non-negative integer
NumChars(n) == IF n < 10 THEN <<Digit(n)>> ELSE NumChars(n \div 10) \o <<Digit(n % 10)>>

\* QuoteJSONString: the characters that need an escape
EscapeChar(c) ==
  CASE c = "\"" -> <<"\\", "\"">>
    [] c = "\\" -> <<"\\", "\\">>
    [] c = "\n" -> <<"\\", "n">>
    [] OTHER    -> <<c>>

Quote(s) == <<"\"">> \o Concat([i \in 1..Len(s) |-> EscapeChar(s[i])]) \o <<"\"">>

RECURSIVE JoinWith(_, _)
\* Array.prototype.join
JoinWith(parts, sep) ==
  IF parts = <<>> THEN <<>>
  ELSE IF Len(parts) = 1 THEN parts[1]
  ELSE parts[1] \o sep \o JoinWith(Tail(parts), sep)

\* the keys JSON.stringify serializes of an object: all own keys, or with an
\* array replacer the listed keys the object has, in the list's order
SerializedKeys(o, replacer) ==
  IF replacer.kind = "none" THEN o.keys
  ELSE SelectSeq(replacer.keys, LAMBDA k : KeyIndex(o.keys, k) # 0)

RECURSIVE Serialize(_, _, _, _)
\* SerializeJSONProperty with the current indent
Serialize(v, indent, gap, replacer) ==
  CASE v.t = "null"   -> <<"n", "u", "l", "l">>
    [] v.t = "bool"   -> IF v.b THEN <<"t", "r", "u", "e">> ELSE <<"f", "a", "l", "s", "e">>
    [] v.t = "number" -> NumChars(v.n)
    [] v.t = "string" -> Quote(v.s)
    [] v.t = "array"  ->
         LET inner == indent \o gap
             parts == [i \in 1..Len(v.kids) |-> Serialize(v.kids[i], inner, gap, replacer)]
         IN  IF parts = <<>> THEN <<"[", "]">>
             ELSE IF gap = <<>> THEN <<"[">> \o JoinWith(parts, <<",">>) \o <<"]">>
             ELSE <<"[", "\n">> \o inner \o JoinWith(parts, <<",", "\n">> \o inner)
                    \o <<"\n">> \o indent \o <<"]">>
    [] OTHER ->
         LET inner == indent \o gap
             ks    == SerializedKeys(v, replacer)
             parts == [i \in 1..Len(ks) |->
                         Quote(ks[i]) \o <<":">> \o (IF gap = <<>> THEN <<>> ELSE <<" ">>)
                           \o Serialize(v.kids[KeyIndex(v.keys, ks[i])], inner, gap, replacer)]
         IN  IF parts = <<>> THEN <<"{", "}">>
             ELSE IF gap = <<>> THEN <<"{">> \o JoinWith(parts, <<",">>) \o <<"}">>
             ELSE <<"{", "\n">> \o inner \o JoinWith(parts, <<",", "\n">> \o inner)
                    \o <<"\n">> \o indent \o <<"}">>

\* JSON.stringify(content, this._options.replacer, this._options.space)
Stringify(v, replacer, space) == Serialize(v, <<>>, Gap(space), replacer)

----------------------------------------------------------------------------
(* JSON.parse(text): a recursive-descent parser.  A parse returns           *)
(* [ok, v, rest]: whether a value was read, the value, the unread text.    *)

ParseFail == [ok |-> FALSE, v |-> JNull, rest |-> <<>>]
Parsed(v, rest) == [ok |-> TRUE, v |-> v, rest |-> rest]

IsWs(c) == c \in {" ", "\n", "\t", "\r"}
IsDigit(c) == c \in {"0", "1", "2", "3", "4", "5", "6", "7", "8", "9"}
DigitValue(c) == CHOOSE d \in 0..9 : Digit(d) = c

RECURSIVE SkipWs(_)
SkipWs(s) == IF s # <<>> /\ IsWs(Head(s)) THEN SkipWs(Tail(s)) ELSE s

StartsWith(s, prefix) == Len(s) >= Len(prefix) /\ SubSeq(s, 1, Len(prefix)) = prefix
Drop(s, n) == SubSeq(s, n + 1, Len(s))

RECURSIVE ParseDigits(_, _)
\* the digits after the first one of an integer literal
ParseDigits(s, acc) ==
  IF s # <<>> /\ IsDigit(Head(s))
  THEN ParseDigits(Tail(s), acc * 10 + DigitValue(Head(s)))
  ELSE Parsed(JNum(acc), s)

\* a non-negative integer literal; a leading zero ends the literal
ParseNumber(s) ==
  IF Head(s) = "0" THEN Parsed(JNum(0), Tail(s))
  ELSE ParseDigits(Tail(s), DigitValue(Head(s)))

RECURSIVE ParseChars(_, _)
\* the characters of a string literal after its opening quote
ParseChars(s, acc) ==
  IF s = <<>> THEN ParseFail
  ELSE IF Head(s) = "\"" THEN Parsed(JStr(acc), Tail(s))
  ELSE IF Head(s) = "\\" THEN
    IF Len(s) < 2 THEN ParseFail
    ELSE IF s[2] \in {"\"", "\\"} THEN ParseChars(Drop(s, 2), Append(acc, s[2]))
    ELSE IF s[2] = "n" THEN ParseChars(Drop(s, 2), Append(acc, "\n"))
    ELSE ParseFail
  ELSE IF Head(s) \in {"\n", "\t", "\r"} THEN ParseFail
  ELSE ParseChars(Tail(s), Append(acc, Head(s)))

RECURSIVE ParseValue(_), ParseElements(_, _), ParseMembers(_, _)
\* a JSON value, leading white space skipped
ParseValue(text) ==
  LET s == SkipWs(text) IN
  IF s = <<>> THEN ParseFail
  ELSE IF StartsWith(s, <<"n", "u", "l", "l">>) THEN Parsed(JNull, Drop(s, 4))
  ELSE IF StartsWith(s, <<"t", "r", "u", "e">>) THEN Parsed(JBool(TRUE), Drop(s, 4))
  ELSE IF StartsWith(s, <<"f", "a", "l", "s", "e">>) THEN Parsed(JBool(FALSE), Drop(s, 5))
  ELSE IF IsDigit(Head(s)) THEN ParseNumber(s)
  ELSE IF Head(s) = "\"" THEN ParseChars(Tail(s), <<>>)
  ELSE IF Head(s) = "[" THEN
    LET r == SkipWs(Tail(s)) IN
    IF r # <<>> /\ Head(r) = "]" THEN Parsed(JArr(<<>>), Tail(r))
    ELSE ParseElements(r, <<>>)
  ELSE IF Head(s) = "{" THEN
    LET r == SkipWs(Tail(s)) IN
    IF r # <<>> /\ Head(r) = "}" THEN Parsed(JObj(<<>>, <<>>), Tail(r))
    ELSE ParseMembers(r, JObj(<<>>, <<>>))
  ELSE ParseFail

\* the elements of an array after "[", up to and including "]"
ParseElements(text, acc) ==
  LET e == ParseValue(text) IN
  IF ~e.ok THEN ParseFail
  ELSE LET r == SkipWs(e.rest) IN
       IF r = <<>> THEN ParseFail
       ELSE IF Head(r) = "," THEN ParseElements(Tail(r), Append(acc, e.v))
       ELSE IF Head(r) = "]" THEN Parsed(JArr(Append(acc, e.v)), Tail(r))
       ELSE ParseFail

\* the members of an object after "{", up to and including "}"
ParseMembers(text, acc) ==
  LET s == SkipWs(text) IN
  IF s = <<>> \/ Head(s) # "\"" THEN ParseFail
  ELSE LET k == ParseChars(Tail(s), <<>>) IN
       IF ~k.ok THEN ParseFail
       ELSE LET c == SkipWs(k.rest) IN
            IF c = <<>> \/ Head(c) # ":" THEN ParseFail
            ELSE LET m == ParseValue(Tail(c)) IN
                 IF ~m.ok THEN ParseFail
                 ELSE LET r == SkipWs(m.rest)
                          o == SetKey(acc, k.v.s, m.v)
                      IN  IF r = <<>> THEN ParseFail
                          ELSE IF Head(r) = "," THEN ParseMembers(Tail(r), o)
                          ELSE IF Head(r) = "}" THEN Parsed(o, Tail(r))
                          ELSE ParseFail

\* JSON.parse(text): one value and nothing but white space after it;
\* [ok |-> FALSE] is the SyntaxError
JsonParse(text) ==
  LET p == ParseValue(text) IN
  IF p.ok /\ SkipWs(p.rest) = <<>> THEN [ok |-> TRUE, v |-> p.v]
  ELSE [ok |-> FALSE, v |-> JNull]

----------------------------------------------------------------------------
(* Text encodings of fs.readFile / fs.writeFile ({ encoding })              *)

\* the code point of a character below 128
CharCode(c) ==
  CASE c = "\t" -> 9   [] c = "\n" -> 10  [] c = "\r" -> 13  [] c = " " -> 32
    [] c = "\"" -> 34  [] c = "," -> 44   [] c = "-" -> 45   [] c = ":" -> 58
    [] c = "0" -> 48   [] c = "1" -> 49   [] c = "2" -> 50   [] c = "3" -> 51
    [] c = "4" -> 52   [] c = "5" -> 53   [] c = "6" -> 54   [] c = "7" -> 55
    [] c = "8" -> 56   [] c = "9" -> 57   [] c = "[" -> 91   [] c = "\\" -> 92
    [] c = "]" -> 93   [] c = "a" -> 97   [] c = "b" -> 98   [] c = "e" -> 101
    [] c = "f" -> 102  [] c = "i" -> 105  [] c = "l" -> 108  [] c = "n" -> 110
    [] c = "r" -> 114  [] c = "s" -> 115  [] c = "t" -> 116  [] c = "u" -> 117
    [] c = "x" -> 120  [] c = "{" -> 123  [] c = "}" -> 125

AsciiChars ==
  {"\t", "\n", "\r", " ", "\"", ",", "-", ":", "0", "1", "2", "3", "4", "5", "6", "7",
   "8", "9", "[", "\\", "]", "a", "b", "e", "f", "i", "l", "n", "r", "s", "t", "u", "x",
   "{", "}"}

\* the character of a byte below 128: the inverse of CharCode
ByteChar(byte) ==
  CASE byte = 9 -> "\t"   [] byte = 10 -> "\n"  [] byte = 13 -> "\r"  [] byte = 32 -> " "
    [] byte = 34 -> "\""  [] byte = 44 -> ","   [] byte = 45 -> "-"   [] byte = 58 -> ":"
    [] byte = 48 -> "0"   [] byte = 49 -> "1"   [] byte = 50 -> "2"   [] byte = 51 -> "3"
    [] byte = 52 -> "4"   [] byte = 53 -> "5"   [] byte = 54 -> "6"   [] byte = 55 -> "7"
    [] byte = 56 -> "8"   [] byte = 57 -> "9"   [] byte = 91 -> "["   [] byte = 92 -> "\\"
    [] byte = 93 -> "]"   [] byte = 97 -> "a"   [] byte = 98 -> "b"   [] byte = 101 -> "e"
    [] byte = 102 -> "f"  [] byte = 105 -> "i"  [] byte = 108 -> "l"  [] byte = 110 -> "n"
    [] byte = 114 -> "r"  [] byte = 115 -> "s"  [] byte = 116 -> "t"  [] byte = 117 -> "u"
    [] byte = 120 -> "x"  [] byte = 123 -> "{"  [] byte = 125 -> "}"

\* Buffer.from(text, encoding): "utf8" writes a code point above 127 as
\* several bytes; "ascii" writes the low byte of each code point
EncodeChar(c, encoding) ==
  IF c \in AsciiChars THEN <<CharCode(c)>>
  ELSE IF encoding = "utf8"
       THEN (IF c = "U+00E9" THEN <<195, 169>> ELSE <<239, 191, 189>>)
       ELSE (IF c = "U+00E9" THEN <<233>> ELSE <<253>>)

Encode(text, encoding) == Concat([i \in 1..Len(text) |-> EncodeChar(text[i], encoding)])

\* the byte at position i, 0 outside the buffer
ByteAt(bytes, i) == IF i >= 1 /\ i <= Len(bytes) THEN bytes[i] ELSE 0

\* the character that buffer.toString(encoding) produces for the byte at
\* position i (none for the later bytes of a multi-byte sequence): "ascii"
\* clears the high bit of every byte; "utf8" reads multi-byte sequences and
\* replaces a stray byte by U+FFFD
DecodeAt(bytes, i, encoding) ==
  LET byte == bytes[i] IN
  IF encoding = "utf8" THEN
    IF byte < 128 THEN <<ByteChar(byte)>>
    ELSE IF byte = 195 /\ ByteAt(bytes, i + 1) = 169 THEN <<"U+00E9">>
    ELSE IF byte = 169 /\ ByteAt(bytes, i - 1) = 195 THEN <<>>
    ELSE IF byte = 239 /\ ByteAt(bytes, i + 1) = 191 /\ ByteAt(bytes, i + 2) = 189
         THEN <<"U+FFFD">>
    ELSE IF byte = 191 /\ ByteAt(bytes, i - 1) = 239 /\ ByteAt(bytes, i + 1) = 189 THEN <<>>
    ELSE IF byte = 189 /\ ByteAt(bytes, i - 1) = 191 /\ ByteAt(bytes, i - 2) = 239 THEN <<>>
    ELSE <<"U+FFFD">>
  ELSE <<ByteChar(byte % 128)>>

Decode(bytes, encoding) == Concat([i \in 1..Len(bytes) |-> DecodeAt(bytes, i, encoding)])

----------------------------------------------------------------------------
(* The directory: a listing <<[file, data]>> in the order readdir returns  *)

\* position of a file name in the listing, 0 when there is no such file
IndexOf(listing, fname) ==
  IF \E i \in 1..Len(listing) : listing[i].file = fname
  THEN CHOOSE i \in 1..Len(listing) : listing[i].file = fname
  ELSE 0

HasFile(listing, fname) == IndexOf(listing, fname) # 0

RemoveAt(listing, i) == SubSeq(listing, 1, i - 1) \o SubSeq(listing, i + 1, Len(listing))

InsertAt(listing, i, entry) ==
  SubSeq(listing, 1, i - 1) \o <<entry>> \o SubSeq(listing, i, Len(listing))

WriteFileAppend(listing, fname, data) ==
  LET i == IndexOf(listing, fname) IN
  IF i # 0 THEN {[listing EXCEPT ![i].data = listing[i].data \o data]}
  ELSE {InsertAt(listing, j, [file |-> fname, data |-> data]) : j \in 1..(Len(listing) + 1)}

\* fs.writeFile: an existing file is overwritten in place; a new entry may
\* show up anywhere in later listings (readdir order is the file system's)
WriteFile(listing, fname, data) ==
  LET i == IndexOf(listing, fname) IN
  IF i # 0 THEN {[listing EXCEPT ![i].data = data]}
  ELSE {InsertAt(listing, j, [file |-> fname, data |-> data]) : j \in 1..(Len(listing) + 1)}

UnlinkNothing(listing, fname) == listing

\* fs.unlink of an existing file
Unlink(listing, fname) == RemoveAt(listing, IndexOf(listing, fname))

RenameFileCopy(listing, old, new) ==
  IF old = new \/ HasFile(listing, new) THEN {listing}
  ELSE {InsertAt(listing, j, [file |-> new, data |-> listing[IndexOf(listing, old)].data]) :
          j \in 1..(Len(listing) + 1)}

\* fs.rename of an existing file (POSIX): the target is replaced; renaming
\* a file to itself changes nothing
RenameFile(listing, old, new) ==
  IF old = new THEN {listing}
  ELSE LET data == listing[IndexOf(listing, old)].data
           rest == Unlink(listing, old)
       IN  IF HasFile(rest, new) THEN {[rest EXCEPT ![IndexOf(rest, new)].data = data]}
           ELSE {InsertAt(rest, j, [file |-> new, data |-> data]) : j \in 1..(Len(rest) + 1)}

\* `${this._dir}/${file}.json`, relative to the directory
JsonFile(name) == name \o DotJson

----------------------------------------------------------------------------
(* Options and checkFilename                                               *)

NoReplacer == [kind |-> "none", keys |-> <<>>]
SpaceNumber(n) == [kind |-> "number", n |-> n, s |-> <<>>]
SpaceString(s) == [kind |-> "string", n |-> 0, s |-> s]

\* defaultOptions on Linux
defaultOptions ==
  [encoding |-> "utf8", replacer |-> NoReplacer, space |-> SpaceNumber(2), git |-> "/usr/bin/git"]

\* checkFilename(file) returns normally: the name does not include ".."
checkFilenameStrict(file) == file # DotDot
checkFilename(file) == ~Includes(file, DotDot)

\* what a call leaves behind: its arguments (a, b, content), how it ended
\* (status; value is what it returned), the fs calls it made, for a write
\* whether the file existed before, and for a scan the callback and the
\* names it was called with
Outcome(op, a, b, content, status, value, fs) ==
  [op |-> op, a |-> a, b |-> b, content |-> content, status |-> status,
   value |-> value, fs |-> fs, existed |-> FALSE, func |-> "", calls |-> <<>>]

NoCall == Outcome("none", <<>>, <<>>, JNull, "ok", JNull, <<>>)

----------------------------------------------------------------------------
(* Bounds and the inputs the calls are tried with                          *)

\* the most entries the directory holds
MaxFiles == 2

NameA      == <<"a">>
NameB      == <<"b">>
NameADot   == <<"a", ".">>
NameUp     == <<".", ".">>
NameADotsB == <<"a", ".", ".", "b">>

\* names a caller passes: two without "..", two with
Names == {NameA, NameADot, NameUp, NameADotsB}

Accented == JStr(<<"U+00E9">>)
ObjAB    == JObj(<<NameA, NameB>>, <<JNum(1), JArr(<<Accented, JNull, JBool(TRUE), JObj(<<>>, <<>>)>>)>>)
Quoted   == JStr(<<"x", "\"", "\n">>)

\* contents a caller writes
Contents == {ObjAB, JNum(25), Quoted}

\* the options a store is constructed with: the defaults, or one of them
\* overridden (Object.assign({}, defaultOptions, options))
OptionSets ==
  { defaultOptions,
    [defaultOptions EXCEPT !.replacer = [kind |-> "list", keys |-> <<NameA>>]],
    [defaultOptions EXCEPT !.space = SpaceNumber(0)],
    [defaultOptions EXCEPT !.space = SpaceString(<<"-">>)],
    [defaultOptions EXCEPT !.space = SpaceString(<<"\t">>)],
    [defaultOptions EXCEPT !.encoding = "ascii"] }

\* "{" : a file that is not JSON
BrokenData == <<123>>

\* directories a store is constructed over (mkdirSync fails silently when
\* the directory exists)
InitListings ==
  { <<>>, <<[file |-> JsonFile(NameB), data |-> BrokenData]>> }

----------------------------------------------------------------------------
(* read, write, delete, rename                                             *)

FsCall(fn, fname) == [fn |-> fn, file |-> fname]

\* read(file): what the call returns or throws, and the fs calls it makes
ReadOp(listing, opts, file) ==
  IF ~checkFilename(file)
  THEN Outcome("read", file, <<>>, JNull, "InvalidName", JNull, <<>>)
  ELSE LET i  == IndexOf(listing, JsonFile(file))
           fs == <<FsCall("readFile", JsonFile(file))>>
       IN  IF i = 0 THEN Outcome("read", file, <<>>, JNull, "ENOENT", JNull, fs)
           ELSE LET p == JsonParse(Decode(listing[i].data, opts.encoding)) IN
                IF p.ok THEN Outcome("read", file, <<>>, JNull, "ok", p.v, fs)
                ELSE Outcome("read", file, <<>>, JNull, "SyntaxError", JNull, fs)

\* the bytes write and writeAll hand to fs.writeFile
FileData(content, opts) ==
  Encode(Stringify(content, opts.replacer, opts.space), opts.encoding)

\* there is room for file fname (the model's cap on the directory's size)
Room(listing, fname) == HasFile(listing, fname) \/ Len(listing) < MaxFiles

Read(file) ==
  /\ pc = "idle"
  /\ last' = ReadOp(files, options, file)
  /\ UNCHANGED <<files, options, pc, call, execLog, repo>>

Write(file, content) ==
  /\ pc = "idle"
  /\ IF ~checkFilename(file)
     THEN /\ last' = Outcome("write", file, <<>>, content, "InvalidName", JNull, <<>>)
          /\ files' = files
     ELSE /\ Room(files, JsonFile(file))
          /\ files' \in WriteFile(files, JsonFile(file), FileData(content, options))
          /\ last' = [Outcome("write", file, <<>>, content, "ok", JNull,
                              <<FsCall("writeFile", JsonFile(file))>>)
                        EXCEPT !.existed = HasFile(files, JsonFile(file))]
  /\ UNCHANGED <<options, pc, call, execLog, repo>>

Delete(file) ==
  /\ pc = "idle"
  /\ IF ~checkFilename(file)
     THEN /\ last' = Outcome("delete", file, <<>>, JNull, "InvalidName", JNull, <<>>)
          /\ files' = files
     ELSE IF ~HasFile(files, JsonFile(file))
     THEN /\ last' = Outcome("delete", file, <<>>, JNull, "ENOENT", JNull,
                             <<FsCall("unlink", JsonFile(file))>>)
          /\ files' = files
     ELSE /\ last' = Outcome("delete", file, <<>>, JNull, "ok", JNull,
                             <<FsCall("unlink", JsonFile(file))>>)
          /\ files' = Unlink(files, JsonFile(file))
  /\ UNCHANGED <<options, pc, call, execLog, repo>>

Rename(oldFile, newFile) ==
  /\ pc = "idle"
  /\ IF ~checkFilename(oldFile) \/ ~checkFilename(newFile)
     THEN /\ last' = Outcome("rename", oldFile, newFile, JNull, "InvalidName", JNull, <<>>)
          /\ files' = files
     ELSE IF ~HasFile(files, JsonFile(oldFile))
     THEN /\ last' = Outcome("rename", oldFile, newFile, JNull, "ENOENT", JNull,
                             <<FsCall("rename", JsonFile(oldFile))>>)
          /\ files' = files
     ELSE /\ last' = Outcome("rename", oldFile, newFile, JNull, "ok", JNull,
                             <<FsCall("rename", JsonFile(oldFile))>>)
          /\ files' \in RenameFile(files, JsonFile(oldFile), JsonFile(newFile))
  /\ UNCHANGED <<options, pc, call, execLog, repo>>

\* new JsonDir(dir, options): no call made yet, no commit running
Init ==
  /\ files \in InitListings
  /\ options \in OptionSets
  /\ last = NoCall
  /\ pc = "idle"
  /\ call = [file |-> <<>>, cmd |-> <<>>]
  /\ execLog = <<>>
  /\ repo = FALSE

Next ==
  \/ \E file \in Names : Read(file)
  \/ \E file \in Names, content \in Contents : Write(file, content)
  \/ \E file \in Names : Delete(file)
  \/ \E oldFile \in Names, newFile \in Names : Rename(oldFile, newFile)

Spec == Init /\ [][Next]_vars

----------------------------------------------------------------------------
(* Callbacks (content, file) => ... that callers pass to the scans          *)

\* content[k] of a JavaScript value that is not null: a missing property,
\* and any property of this model's numbers, strings and arrays, is undefined
GetProperty(v, k) ==
  IF v.t = "object" /\ KeyIndex(v.keys, k) # 0 THEN v.kids[KeyIndex(v.keys, k)]
  ELSE JUndefined

\* the callbacks: () => true, () => false, (c) => c.a === 25,
\* (c) => c.a, (c, file) => file === "a"
Funcs == {"always", "never", "aIs25", "getA", "fileIsA"}

\* what calling func(content, file) gives: a value, or a TypeError when it
\* reads a property of null
Apply(func, content, file) ==
  CASE func = "always"  -> [threw |-> FALSE, result |-> JBool(TRUE)]
    [] func = "never"   -> [threw |-> FALSE, result |-> JBool(FALSE)]
    [] func = "fileIsA" -> [threw |-> FALSE, result |-> JBool(file = NameA)]
    [] func = "aIs25"   ->
         IF content.t = "null" THEN [threw |-> TRUE, result |-> JUndefined]
         ELSE [threw |-> FALSE, result |-> JBool(GetProperty(content, NameA) = JNum(25))]
    [] OTHER ->
         IF content.t = "null" THEN [threw |-> TRUE, result |-> JUndefined]
         ELSE [threw |-> FALSE, result |-> GetProperty(content, NameA)]

\* ToBoolean, as in if (func(content, filename))
Truthy(v) ==
  CASE v.t = "bool"   -> v.b
    [] v.t = "number" -> v.n # 0
    [] v.t = "string" -> v.s # <<>>
    [] v.t \in {"array", "object"} -> TRUE
    [] OTHER -> FALSE

----------------------------------------------------------------------------
(* The scans: count, names, readAll, forEach, map, find, findAll           *)

ScanOutcome(op, func, status, value, fs, calls) ==
  [Outcome(op, <<>>, <<>>, JNull, status, value, fs) EXCEPT !.func = func, !.calls = calls]

ReadDir == <<FsCall("readdir", <<>>)>>

\* file.substr(0, file.length - 5)
RecordName(file) == Substr0(file, Len(file) - 5)

\* JSON.parse(await fs.readFile(`${this._dir}/${file}`, { encoding }))
ParseEntry(entry, opts) == JsonParse(Decode(entry.data, opts.encoding))

\* file.endsWith(`.json`)
IsJson(file) == EndsWith(file, DotJson)

RECURSIVE CountLoop(_, _, _)
CountLoop(listing, i, counter) ==
  IF i > Len(listing) THEN counter
  ELSE CountLoop(listing, i + 1, IF IsJson(listing[i].file) THEN counter + 1 ELSE counter)

CountOp(listing) == ScanOutcome("count", "", "ok", CountLoop(listing, 1, 0), ReadDir, <<>>)

RECURSIVE NamesLoop(_, _, _)
NamesLoop(listing, i, all) ==
  IF i > Len(listing) THEN all
  ELSE NamesLoop(listing, i + 1,
         IF IsJson(listing[i].file) THEN Append(all, RecordName(listing[i].file))
         ELSE all)

NamesOp(listing) == ScanOutcome("names", "", "ok", NamesLoop(listing, 1, <<>>), ReadDir, <<>>)

\* all[name] = value on the plain object readAll builds: the name
\* __proto__ reaches the prototype setter and adds no key
AssignKey(all, name, value) ==
  IF name = ProtoKey THEN all ELSE SetKey(all, name, value)

RECURSIVE ReadAllLoop(_, _, _, _, _)
ReadAllLoop(listing, opts, i, all, fs) ==
  IF i > Len(listing) THEN ScanOutcome("readAll", "", "ok", all, fs, <<>>)
  ELSE IF ~IsJson(listing[i].file) THEN ReadAllLoop(listing, opts, i + 1, all, fs)
  ELSE LET p   == ParseEntry(listing[i], opts)
           fs2 == Append(fs, FsCall("readFile", listing[i].file))
       IN  IF ~p.ok THEN ScanOutcome("readAll", "", "SyntaxError", JNull, fs2, <<>>)
           ELSE ReadAllLoop(listing, opts, i + 1,
                            AssignKey(all, RecordName(listing[i].file), p.v), fs2)

ReadAllOp(listing, opts) == ReadAllLoop(listing, opts, 1, JObj(<<>>, <<>>), ReadDir)

RECURSIVE ForEachLoop(_, _, _, _, _, _)
ForEachLoop(listing, opts, func, i, fs, calls) ==
  IF i > Len(listing) THEN ScanOutcome("forEach", func, "ok", JUndefined, fs, calls)
  ELSE IF ~IsJson(listing[i].file) THEN ForEachLoop(listing, opts, func, i + 1, fs, calls)
  ELSE LET p      == ParseEntry(listing[i], opts)
           fs2    == Append(fs, FsCall("readFile", listing[i].file))
           name   == RecordName(listing[i].file)
           calls2 == Append(calls, name)
       IN  IF ~p.ok THEN ScanOutcome("forEach", func, "SyntaxError", JUndefined, fs2, calls)
           ELSE IF Apply(func, p.v, name).threw
           THEN ScanOutcome("forEach", func, "TypeError", JUndefined, fs2, calls2)
           ELSE ForEachLoop(listing, opts, func, i + 1, fs2, calls2)

ForEachOp(listing, opts, func) == ForEachLoop(listing, opts, func, 1, ReadDir, <<>>)

RECURSIVE MapLoop(_, _, _, _, _, _, _)
MapLoop(listing, opts, func, i, all, fs, calls) ==
  IF i > Len(listing) THEN ScanOutcome("map", func, "ok", all, fs, calls)
  ELSE IF ~IsJson(listing[i].file) THEN MapLoop(listing, opts, func, i + 1, all, fs, calls)
  ELSE LET p      == ParseEntry(listing[i], opts)
           fs2    == Append(fs, FsCall("readFile", listing[i].file))
           name   == RecordName(listing[i].file)
           calls2 == Append(calls, name)
           r      == Apply(func, p.v, name)
       IN  IF ~p.ok THEN ScanOutcome("map", func, "SyntaxError", <<>>, fs2, calls)
           ELSE IF r.threw THEN ScanOutcome("map", func, "TypeError", <<>>, fs2, calls2)
           ELSE MapLoop(listing, opts, func, i + 1, Append(all, r.result), fs2, calls2)

MapOp(listing, opts, func) == MapLoop(listing, opts, func, 1, <<>>, ReadDir, <<>>)

\* find's result: null, or { file, content }
Null == [found |-> FALSE, file |-> <<>>, content |-> JNull]
Hit(file, content) == [found |-> TRUE, file |-> file, content |-> content]

\* if (func(content, filename)) { result = ...; break; }
Found(func, v, name) == Truthy(Apply(func, v, name).result)

RECURSIVE FindLoopNoBreak(_, _, _, _, _, _, _)
FindLoopNoBreak(listing, opts, func, i, result, fs, calls) ==
  IF i > Len(listing) THEN ScanOutcome("find", func, "ok", result, fs, calls)
  ELSE IF ~IsJson(listing[i].file)
  THEN FindLoopNoBreak(listing, opts, func, i + 1, result, fs, calls)
  ELSE LET p      == ParseEntry(listing[i], opts)
           fs2    == Append(fs, FsCall("readFile", listing[i].file))
           name   == RecordName(listing[i].file)
           calls2 == Append(calls, name)
       IN  IF ~p.ok THEN ScanOutcome("find", func, "SyntaxError", Null, fs2, calls)
           ELSE IF Apply(func, p.v, name).threw
           THEN ScanOutcome("find", func, "TypeError", Null, fs2, calls2)
           ELSE FindLoopNoBreak(listing, opts, func, i + 1,
                                IF Found(func, p.v, name) THEN Hit(name, p.v) ELSE result,
                                fs2, calls2)

RECURSIVE FindLoop(_, _, _, _, _, _, _)
FindLoop(listing, opts, func, i, result, fs, calls) ==
  IF i > Len(listing) THEN ScanOutcome("find", func, "ok", result, fs, calls)
  ELSE IF ~IsJson(listing[i].file)
  THEN FindLoop(listing, opts, func, i + 1, result, fs, calls)
  ELSE LET p      == ParseEntry(listing[i], opts)
           fs2    == Append(fs, FsCall("readFile", listing[i].file))
           name   == RecordName(listing[i].file)
           calls2 == Append(calls, name)
       IN  IF ~p.ok THEN ScanOutcome("find", func, "SyntaxError", Null, fs2, calls)
           ELSE IF Apply(func, p.v, name).threw
           THEN ScanOutcome("find", func, "TypeError", Null, fs2, calls2)
           ELSE IF Found(func, p.v, name)
           THEN ScanOutcome("find", func, "ok", Hit(name, p.v), fs2, calls2)
           ELSE FindLoop(listing, opts, func, i + 1, result, fs2, calls2)

FindOp(listing, opts, func) == FindLoop(listing, opts, func, 1, Null, ReadDir, <<>>)

\* findAll's result: null, or a list of { file, content }
NoneOrAll(result) == [null |-> FALSE, items |-> result]
\* if (result.length === 0) { result = null; }
NullIfEmpty(result) ==
  IF Len(result) = 0 THEN [null |-> TRUE, items |-> <<>>] ELSE [null |-> FALSE, items |-> result]

RECURSIVE FindAllLoop(_, _, _, _, _, _, _)
FindAllLoop(listing, opts, func, i, result, fs, calls) ==
  IF i > Len(listing) THEN ScanOutcome("findAll", func, "ok", NullIfEmpty(result), fs, calls)
  ELSE IF ~IsJson(listing[i].file)
  THEN FindAllLoop(listing, opts, func, i + 1, result, fs, calls)
  ELSE LET p      == ParseEntry(listing[i], opts)
           fs2    == Append(fs, FsCall("readFile", listing[i].file))
           name   == RecordName(listing[i].file)
           calls2 == Append(calls, name)
           r      == Apply(func, p.v, name)
       IN  IF ~p.ok THEN ScanOutcome("findAll", func, "SyntaxError", NullIfEmpty(<<>>), fs2, calls)
           ELSE IF r.threw
           THEN ScanOutcome("findAll", func, "TypeError", NullIfEmpty(<<>>), fs2, calls2)
           ELSE FindAllLoop(listing, opts, func, i + 1,
                            IF Truthy(r.result) THEN Append(result, Hit(name, p.v)) ELSE result,
                            fs2, calls2)

FindAllOp(listing, opts, func) == FindAllLoop(listing, opts, func, 1, <<>>, ReadDir, <<>>)

\* a scan changes nothing but what the caller sees
Scanned(outcome) ==
  /\ pc = "idle"
  /\ last' = outcome
  /\ UNCHANGED <<files, options, pc, call, execLog, repo>>

Count          == Scanned(CountOp(files))
ListNames      == Scanned(NamesOp(files))
ReadAll        == Scanned(ReadAllOp(files, options))
ForEach(func)  == Scanned(ForEachOp(files, options, func))
Map(func)      == Scanned(MapOp(files, options, func))
Find(func)     == Scanned(FindOp(files, options, func))
FindAll(func)  == Scanned(FindAllOp(files, options, func))

Readme == <<"r", "e", "a", "d", "m", "e">>
Json   == <<"j", "s", "o", "n">>

\* directories a scanning store is constructed over: empty; a broken .json
\* file; files without the suffix and a record with the empty name
ScanListings ==
  { <<>>,
    <<[file |-> JsonFile(NameB), data |-> BrokenData]>>,
    <<[file |-> Readme, data |-> BrokenData], [file |-> DotJson, data |-> <<49>>]>>,
    <<[file |-> Json, data |-> <<49>>]>> }

ScanOptionSets == {defaultOptions, [defaultOptions EXCEPT !.encoding = "ascii"]}

\* names and contents written between scans
ScanNames    == {NameA, ProtoKey}
ScanContents == {JObj(<<NameA>>, <<JNum(25)>>), JObj(<<NameA>>, <<JNum(1)>>), JNull}

InitScan ==
  /\ files \in ScanListings
  /\ options \in ScanOptionSets
  /\ last = NoCall
  /\ pc = "idle"
  /\ call = [file |-> <<>>, cmd |-> <<>>]
  /\ execLog = <<>>
  /\ repo = FALSE

NextScan ==
  \/ Count
  \/ ListNames
  \/ ReadAll
  \/ \E func \in Funcs : ForEach(func)
  \/ \E func \in Funcs : Map(func)
  \/ \E func \in Funcs : Find(func)
  \/ \E func \in Funcs : FindAll(func)
  \/ \E file \in ScanNames, content \in ScanContents : Write(file, content)
  \/ \E file \in ScanNames : Delete(file)

SpecScan == InitScan /\ [][NextScan]_vars

----------------------------------------------------------------------------
(* writeAll(content): content is the mapping's entries <<[file, content]>>  *)
(* in the order for (const file in content) visits them                    *)

\* the most entries of a mapping passed to writeAll
MaxBatch == 2

Checked(name) == [fn |-> "checkFilename", file |-> name]

RECURSIVE WriteAllLoop(_, _, _, _, _, _)
\* the loop from entry i on: the directories it may leave and its outcome;
\* calls is the order of the name checks and the writes
WriteAllLoop(listing, opts, content, i, fs, calls) ==
  IF i > Len(content)
  THEN {[files |-> listing,
         out   |-> [Outcome("writeAll", <<>>, <<>>, content, "ok", JUndefined, fs)
                      EXCEPT !.calls = calls]]}
  ELSE LET file   == content[i].file
           calls2 == Append(calls, Checked(file))
       IN  IF ~checkFilename(file)
           THEN {[files |-> listing,
                  out   |-> [Outcome("writeAll", <<>>, <<>>, content, "InvalidName", JUndefined, fs)
                               EXCEPT !.calls = calls2]]}
           ELSE UNION { WriteAllLoop(written, opts, content, i + 1,
                                     Append(fs, FsCall("writeFile", JsonFile(file))),
                                     Append(calls2, FsCall("writeFile", JsonFile(file)))) :
                          written \in WriteFile(listing, JsonFile(file),
                                                FileData(content[i].content, opts)) }

\* writeAll that checks every name before it writes anything
WriteAllChecked(listing, opts, content) ==
  IF \E k \in 1..Len(content) : ~checkFilename(content[k].file)
  THEN {[files |-> listing,
         out   |-> Outcome("writeAll", <<>>, <<>>, content, "InvalidName", JUndefined, <<>>)]}
  ELSE WriteAllLoop(listing, opts, content, 1, <<>>, <<>>)

\* writeAll(content): the directories it may leave, each with the outcome
WriteAllOp(listing, opts, content) == WriteAllLoop(listing, opts, content, 1, <<>>, <<>>)

WriteAll(content) ==
  /\ pc = "idle"
  /\ LET ends == WriteAllOp(files, options, content) IN
     /\ \A e \in ends : Len(e.files) <= MaxFiles
     /\ \E e \in ends : files' = e.files /\ last' = e.out
  /\ UNCHANGED <<options, pc, call, execLog, repo>>

BatchNames    == {NameA, NameB, NameADotsB}
BatchContents == {JObj(<<NameA>>, <<JNum(25)>>), Quoted}

\* the mappings tried: up to MaxBatch entries with distinct keys
Mappings ==
  UNION { { m \in [1..n -> [file : BatchNames, content : BatchContents]] :
              \A i \in 1..n, j \in 1..n : i # j => m[i].file # m[j].file } :
          n \in 1..MaxBatch }

BatchOptionSets == {defaultOptions, [defaultOptions EXCEPT !.space = SpaceNumber(0)]}

InitBatch ==
  /\ files \in InitListings
  /\ options \in BatchOptionSets
  /\ last = NoCall
  /\ pc = "idle"
  /\ call = [file |-> <<>>, cmd |-> <<>>]
  /\ execLog = <<>>
  /\ repo = FALSE

NextBatch ==
  \/ \E content \in Mappings : WriteAll(content)
  \/ \E file \in BatchNames : Read(file)
  \/ \E file \in BatchNames : Delete(file)

SpecBatch == InitBatch /\ [][NextBatch]_vars

----------------------------------------------------------------------------
(* commit(file, options): git add and git commit through child_process.exec *)
(* A command line and an error message are sequences of pieces of text; the *)
(* piece NotARepo never straddles two pieces.                               *)

NotARepo == <<"not a git repository">>

\* this._dir, the working directory of every exec
Dir == "/store"

\* the executable a command word runs: a bare word is looked up in PATH,
\* which on this host finds /usr/bin/git
Executable(word) == IF word = "git" THEN "/usr/bin/git" ELSE word

\* let commitMessage = `${file}`; if (options.message) += `: ${options.message}`
CommitMessage(file, author) ==
  IF author.message # <<>> THEN file \o <<": ">> \o author.message ELSE file

\* "${git}" add "${file}.json" && "${git}" commit -m "${commitMessage}" --author="${name} <${email}>"
Cmd(opts, file, author) ==
  <<"\"", opts.git, "\" add \"">> \o file \o <<".json\" && \"", opts.git, "\" commit -m \"">>
    \o CommitMessage(file, author)
    \o <<"\" --author=\"", author.name, " <", author.email, ">\"">>

\* one process: the executable, its subcommand, its working directory
Process(word, sub) == [exe |-> Executable(word), sub |-> sub, cwd |-> Dir]

\* the Error of child_process.exec: "Command failed: " + cmd + "\n" + stderr
ErrorMessage(cmd, stderr) == <<"Command failed: ">> \o cmd \o <<"\n">> \o stderr

StderrNoRepo   == <<"fatal: ">> \o NotARepo \o <<" (or any of the parent directories): .git">>
StderrPathspec == <<"fatal: pathspec did not match any files">>
StderrNothing  == <<"nothing to commit">>
StderrNoGit    == <<"/bin/sh: git: not found">>

\* what running cmd can do: git add fails without a repository or without
\* the file; git commit may fail; [procs, ok, stderr]
RunCmd(opts, file, hasRepo, listing) ==
  LET add    == Process(opts.git, "add")
      commit == Process(opts.git, "commit")
  IN  IF ~hasRepo THEN {[procs |-> <<add>>, ok |-> FALSE, stderr |-> StderrNoRepo]}
      ELSE IF ~HasFile(listing, JsonFile(file))
      THEN {[procs |-> <<add>>, ok |-> FALSE, stderr |-> StderrPathspec]}
      ELSE {[procs |-> <<add, commit>>, ok |-> TRUE, stderr |-> <<>>],
            [procs |-> <<add, commit>>, ok |-> FALSE, stderr |-> StderrNothing]}

\* const cmdGitInit = `git init`: the bare word git, whatever options.git is
RunInit(opts) ==
  {[procs |-> <<Process("git", "init")>>, ok |-> TRUE, stderr |-> <<>>],
   [procs |-> <<Process("git", "init")>>, ok |-> FALSE, stderr |-> StderrNoGit]}

InitOnAnyError(at, message) == at = "first"
\* the catch of the first exec: error.message.includes(`not a git repository`)
InitOnError(at, message) == at = "first" /\ Includes(message, NotARepo)

Exec(kind, at, run, message) ==
  [kind |-> kind, at |-> at, procs |-> run.procs, ok |-> run.ok, message |-> message]

\* commit(file, author) is called: the name is checked, the command built
CommitCall(file, author) ==
  /\ pc = "idle"
  /\ execLog' = <<>>
  /\ IF ~checkFilename(file)
     THEN /\ last' = Outcome("commit", file, <<>>, JNull, "InvalidName", <<>>, <<>>)
          /\ UNCHANGED <<pc, call>>
     ELSE /\ last' = Outcome("commit", file, <<>>, JNull, "running", <<>>, <<>>)
          /\ pc' = "first"
          /\ call' = [file |-> file, cmd |-> Cmd(options, file, author)]
  /\ UNCHANGED <<files, options, repo>>

\* await exec(cmd, { cwd: this._dir }): the first try or the retry
ExecCmd ==
  /\ pc \in {"first", "retry"}
  /\ \E run \in RunCmd(options, call.file, repo, files) :
       LET message == IF run.ok THEN <<>> ELSE ErrorMessage(call.cmd, run.stderr) IN
       /\ execLog' = Append(execLog, Exec("cmd", pc, run, message))
       /\ IF run.ok
          THEN pc' = "idle" /\ last' = [last EXCEPT !.status = "ok"]
          ELSE IF InitOnError(pc, message)
          THEN pc' = "init" /\ last' = last
          ELSE pc' = "idle" /\ last' = [last EXCEPT !.status = "Error", !.value = message]
  /\ UNCHANGED <<files, options, call, repo>>

\* await exec(cmdGitInit, { cwd: this._dir })
ExecInit ==
  /\ pc = "init"
  /\ \E run \in RunInit(options) :
       LET message == IF run.ok THEN <<>> ELSE ErrorMessage(<<"git init">>, run.stderr) IN
       /\ execLog' = Append(execLog, Exec("init", pc, run, message))
       /\ IF run.ok
          THEN pc' = "retry" /\ repo' = TRUE /\ last' = last
          ELSE /\ pc' = "idle" /\ repo' = repo
               /\ last' = [last EXCEPT !.status = "Error", !.value = message]
  /\ UNCHANGED <<files, options, call>>

\* the options argument of commit: { name, email, message? }
Authors ==
  { [name |-> "Max Mustermann", email |-> "max@mustermann.de", message |-> <<>>],
    [name |-> "Max Mustermann", email |-> "max@mustermann.de", message |-> <<"Create user">>],
    [name |-> "Max Mustermann", email |-> "max@mustermann.de",
     message |-> <<"Handle ">> \o NotARepo] }

CommitNames == {NameA, NameB, NameUp}

CommitOptionSets == {defaultOptions, [defaultOptions EXCEPT !.git = "/opt/git/bin/git"]}

InitCommit ==
  /\ files \in InitListings
  /\ options \in CommitOptionSets
  /\ last = NoCall
  /\ pc = "idle"
  /\ call = [file |-> <<>>, cmd |-> <<>>]
  /\ execLog = <<>>
  /\ repo \in BOOLEAN

NextCommit ==
  \/ \E file \in CommitNames, author \in Authors : CommitCall(file, author)
  \/ ExecCmd
  \/ ExecInit
  \/ \E content \in BatchContents : Write(NameA, content)

SpecCommit == InitCommit /\ [][NextCommit]_vars

----------------------------------------------------------------------------
(* Properties of read, write, delete, rename                               *)

IsWhite(chars) == \A i \in 1..Len(chars) : IsWs(chars[i])

\* the options serialize content without loss: no replacer, an indent of
\* white space, an encoding that gives the JSON text back
Lossless(opts, content) ==
  /\ opts.replacer.kind = "none"
  /\ IsWhite(Gap(opts.space))
  /\ LET text == Stringify(content, opts.replacer, opts.space) IN
     Decode(Encode(text, opts.encoding), opts.encoding) = text

\* a read of name right now returns a value deep-equal to content
ReadsBack(name, content) ==
  LET r == ReadOp(files, options, name) IN
  r.status = "ok" /\ DeepEqual(r.value, content)

\* C1 as stated: after every write(name, content) with a name without "..",
\* read(name) returns a value deep-equal to content
C1_RoundTripAnyStore ==
  (last.op = "write" /\ ~Includes(last.a, DotDot)) => ReadsBack(last.a, last.content)

\* C1, amended: in a store whose options serialize without loss (no
\* replacer, white-space indent, an encoding that keeps the text), after
\* write(name, content) with a name without "..", read(name) returns
\* a value deep-equal to content, whether or not the record existed
C1_RoundTrip ==
  (last.op = "write" /\ ~Includes(last.a, DotDot) /\ Lossless(options, last.content))
    => (last.status = "ok" /\ ReadsBack(last.a, last.content))

C1_Witness ==
  /\ last.op = "write" /\ last.status = "ok" /\ last.existed
  /\ last.content = ObjAB
  /\ Lossless(options, last.content)
  /\ options.encoding = "ascii" \/ options.space.kind = "string"

\* the step is a successful rename(a, b)
RenamedStep == last'.op = "rename" /\ last'.status = "ok"

\* after the step read(b) gives what read(a) gave before it, and read(a)
\* fails with ENOENT
MovedStep ==
  LET before == ReadOp(files, options, last'.a)
      after  == ReadOp(files', options, last'.b)
  IN  /\ after.status = before.status
      /\ after.value = before.value
      /\ ReadOp(files', options, last'.a).status = "ENOENT"

\* C3 as stated: for all names a and b without ".." where record a exists,
\* after rename(a, b) read(b) returns what was stored under a and read(a)
\* fails with a not-found error
C3_RenameAnyNames == [][RenamedStep => MovedStep]_vars

\* C3, amended: the same for names a and b that differ
C3_Rename == [][(RenamedStep /\ last'.a # last'.b) => MovedStep]_vars

C3_Witness ==
  /\ last.op = "rename" /\ last.status = "ok" /\ last.a # last.b
  /\ ReadOp(files, options, last.b).status = "ok"

\* the step is a call of read, write, delete or rename with ".." in a name
DotDotStep ==
  /\ last'.op \in {"read", "write", "delete", "rename"}
  /\ Includes(last'.a, DotDot) \/ (last'.op = "rename" /\ Includes(last'.b, DotDot))

\* C4: a read, write, delete or rename with ".." in the name (for rename:
\* in the old or in the new name) fails with the invalid-name error, makes
\* no fs call and leaves the directory as it was
C4_DotDotRejected ==
  [][DotDotStep => (last'.status = "InvalidName" /\ last'.fs = <<>> /\ files' = files)]_vars

C4_Witness ==
  /\ last.op = "rename" /\ last.status = "InvalidName"
  /\ ~Includes(last.a, DotDot) /\ HasFile(files, JsonFile(last.a))

\* C8: delete(name) of an existing record succeeds and read(name) then
\* fails with ENOENT; delete(name) of a missing record fails with ENOENT
\* and leaves the directory as it was
C8_Delete ==
  [][(last'.op = "delete" /\ ~Includes(last'.a, DotDot)) =>
       IF HasFile(files, JsonFile(last'.a))
       THEN last'.status = "ok" /\ ReadOp(files', options, last'.a).status = "ENOENT"
       ELSE last'.status = "ENOENT" /\ files' = files]_vars

C8_Witness ==
  /\ last.op = "delete" /\ last.status = "ok" /\ files # <<>>

----------------------------------------------------------------------------
(* Properties of the scans                                                 *)

\* the entries of the listing whose file name ends in .json, in order
JsonEntries(listing) == SelectSeq(listing, LAMBDA e : EndsWith(e.file, DotJson))

\* every .json file of the directory holds valid JSON
AllParse == \A i \in 1..Len(files) :
  EndsWith(files[i].file, DotJson) => ParseEntry(files[i], options).ok

\* C2, on the directories whose .json files all hold valid JSON (where
\* readAll returns): count() equals the length of names() equals the number
\* of keys of readAll()'s mapping
C2_ScansAgreeAlways ==
  LET r == ReadAllOp(files, options) IN
  AllParse =>
    /\ CountOp(files).value = Len(NamesOp(files).value)
    /\ r.status = "ok"
    /\ Len(r.value.keys) = CountOp(files).value

FindIsNull(r)    == r.status = "ok" /\ ~r.value.found
FindAllIsNull(r) == r.status = "ok" /\ r.value.null

\* C5: on one directory state and for every callback, find returns null
\* exactly when findAll returns null
C5_FindNullIffFindAllNull ==
  \A func \in Funcs :
    FindIsNull(FindOp(files, options, func)) <=> FindAllIsNull(FindAllOp(files, options, func))

C5_Witness ==
  /\ last.op = "findAll" /\ last.status = "ok" /\ last.value.null
  /\ Len(last.calls) = 2
  /\ FindIsNull(FindOp(files, options, last.func))

\* entry i is a .json file that parses and on which func returns a truthy value
Matches(i, func) ==
  /\ EndsWith(files[i].file, DotJson)
  /\ ParseEntry(files[i], options).ok
  /\ LET r == Apply(func, ParseEntry(files[i], options).v, RecordName(files[i].file)) IN
     ~r.threw /\ Truthy(r.result)

\* entry j is no .json file, or one that parses and on which func returns a
\* falsy value without throwing
PassedOver(j, func) ==
  EndsWith(files[j].file, DotJson) =>
    /\ ParseEntry(files[j], options).ok
    /\ LET r == Apply(func, ParseEntry(files[j], options).v, RecordName(files[j].file)) IN
       ~r.threw /\ ~Truthy(r.result)

\* entry i is the first match of func and find gets as far as it
FirstMatch(i, func) == Matches(i, func) /\ \A j \in 1..(i - 1) : PassedOver(j, func)

\* the outcome r of find(func) is the hit at entry i, having read the .json
\* entries up to and including i and called func on exactly those
HitAt(r, i, func) ==
  LET upTo == JsonEntries(SubSeq(files, 1, i)) IN
  /\ r.status = "ok" /\ r.value.found
  /\ r.value.file = RecordName(files[i].file)
  /\ r.value.content = ParseEntry(files[i], options).v
  /\ r.fs = ReadDir \o [k \in 1..Len(upTo) |-> FsCall("readFile", upTo[k].file)]
  /\ r.calls = [k \in 1..Len(upTo) |-> RecordName(upTo[k].file)]

\* C9: find(func) returns the pair of the first .json entry in listing
\* order on which func is true; it has then read exactly the .json entries
\* up to and including that one and called func on no later record
C9_FindFirst ==
  /\ (last.op = "find" /\ last.status = "ok" /\ last.value.found) =>
       \E i \in 1..Len(files) : FirstMatch(i, last.func) /\ HitAt(last, i, last.func)
  /\ \A func \in Funcs : \A i \in 1..Len(files) :
       FirstMatch(i, func) => HitAt(FindOp(files, options, func), i, func)

C9_Witness ==
  /\ last.op = "find" /\ last.status = "ok" /\ last.value.found
  /\ Len(JsonEntries(files)) = 2
  /\ last.value.file = RecordName(files[1].file)
  /\ Len(last.calls) = 1
  /\ Matches(2, last.func)

----------------------------------------------------------------------------
(* Properties of writeAll                                                  *)

\* the data of file fname in a listing, <<"absent">> when there is none
FileState(listing, fname) ==
  IF HasFile(listing, fname) THEN <<"data", listing[IndexOf(listing, fname)].data>>
  ELSE <<"absent">>

\* the checks and writes of entries 1..n of a mapping, one entry at a time
RECURSIVE CheckThenWrite(_, _)
CheckThenWrite(content, n) ==
  IF n = 0 THEN <<>>
  ELSE CheckThenWrite(content, n - 1)
         \o <<Checked(content[n].file), FsCall("writeFile", JsonFile(content[n].file))>>

\* entry k is the first of the mapping whose name includes ".."
FirstBad(content, k) ==
  /\ Includes(content[k].file, DotDot)
  /\ \A i \in 1..(k - 1) : ~Includes(content[i].file, DotDot)

\* C7: writeAll checks and writes the entries one at a time in iteration
\* order; at the first entry whose name includes ".." the call fails, the
\* entries before it are written with their contents, and that entry and
\* the entries after it are not written: their files are as before
C7_WriteAllPrefix ==
  [][last'.op = "writeAll" =>
       LET content == last'.content IN
       \A k \in 1..Len(content) : FirstBad(content, k) =>
         /\ last'.status = "InvalidName"
         /\ last'.calls = Append(CheckThenWrite(content, k - 1), Checked(content[k].file))
         /\ \A i \in 1..(k - 1) :
              FileState(files', JsonFile(content[i].file))
                = <<"data", FileData(content[i].content, options)>>
         /\ \A i \in k..Len(content) :
              FileState(files', JsonFile(content[i].file))
                = FileState(files, JsonFile(content[i].file))]_vars

C7_Witness ==
  /\ last.op = "writeAll" /\ last.status = "InvalidName"
  /\ Len(last.content) = 2 /\ FirstBad(last.content, 2)
  /\ FileState(files, JsonFile(last.content[1].file))
       = <<"data", FileData(last.content[1].content, options)>>
  /\ Len(files) = 2

----------------------------------------------------------------------------
(* Properties of commit                                                    *)

\* the first exec of the call failed with "not a git repository" in its message
FirstFailedNoRepo ==
  /\ Len(execLog) >= 1
  /\ execLog[1].kind = "cmd" /\ ~execLog[1].ok
  /\ Includes(execLog[1].message, NotARepo)

\* the call has ended with the error of exec number n, and made no exec after it
Propagated(n) ==
  /\ Len(execLog) = n
  /\ last.status = "Error" /\ last.value = execLog[n].message

\* C6: within one commit call git init runs only after the first
\* add-and-commit failed with "not a git repository" in its error message;
\* after a successful init the add-and-commit is run once more and never
\* again; any other failure of the first try, and a failure of the init or
\* of the retry, ends the call with that error and no further exec
C6_InitThenOneRetry ==
  /\ Len(execLog) <= 3
  /\ \A i \in 1..Len(execLog) :
       /\ execLog[i].kind = "init" <=> i = 2
       /\ i = 2 => FirstFailedNoRepo
       /\ i = 3 => execLog[2].ok
       /\ i > 1 => ~execLog[1].ok
  /\ (pc = "idle" /\ last.op = "commit" /\ last.status # "InvalidName") =>
       /\ Len(execLog) >= 1
       /\ execLog[1].ok => (Len(execLog) = 1 /\ last.status = "ok")
       /\ (~execLog[1].ok /\ ~FirstFailedNoRepo) => Propagated(1)
       /\ FirstFailedNoRepo =>
            /\ Len(execLog) >= 2
            /\ ~execLog[2].ok => Propagated(2)
            /\ execLog[2].ok =>
                 /\ Len(execLog) = 3
                 /\ IF execLog[3].ok THEN last.status = "ok" ELSE Propagated(3)

C6_Witness ==
  /\ pc = "idle" /\ last.op = "commit" /\ Len(execLog) = 3
  /\ ~execLog[3].ok /\ Includes(execLog[3].message, NotARepo)

\* C10: every process a commit call launches runs the executable at the
\* configured options.git, in the store's directory
C10_ConfiguredGit ==
  \A i \in 1..Len(execLog) : \A k \in 1..Len(execLog[i].procs) :
    /\ execLog[i].procs[k].exe = Executable(options.git)
    /\ execLog[i].procs[k].cwd = Dir

====
